---- MODULE Spec2Model ----
(***************************************************************************)
(* Model of the interface enumerators of rust-interfaces:                  *)
(*   src/src/ffi/unix/mod.rs     getifaddrs walk and sockaddr decoder      *)
(*   src/src/ffi/windows/mod.rs  GetAdaptersAddresses buffer acquisition,  *)
(*                               adapter walk and sockaddr decoders        *)
(* Spec        one call of ifaces() on a Unix (linux / bsd) or Windows     *)
(*             build, against an operating system that answers freely.     *)
(* SpecMap     map_adapter_addresses applied to bounded adapter chains.    *)
(* SpecDecode  the sockaddr decoders applied to bounded sets of records.   *)
(***************************************************************************)
EXTENDS Integers, Sequences, FiniteSets

VARIABLES
    target,        \* the build: "linux", "bsd" (unix/mod.rs) or "windows"
    pc,            \* position inside ifaces()
    ret,           \* the Vec<Interface> being built (ret / adapter_addresses)
    origin,        \* ghost: for each pushed Interface, the record it came from
    result,        \* what ifaces() returned to its caller
    ifaddrs_list,  \* Unix: the nodes of the list getifaddrs handed out
    item,          \* Unix: the walk's cursor, an index into ifaddrs_list
    stopped_at,    \* ghost, Unix: index of the node at which the walk broke (0: none)
    free_calls,    \* Unix: the handles given to freeifaddrs, in call order
    capacity,      \* Windows: buffer.capacity()
    os_required,   \* Windows: the size the OS needs for the adapter chain now
    os_changes,    \* Windows: how often the OS changed os_required during the call
    queries,       \* ghost, Windows: one record per GetAdaptersAddresses call
    acquired,      \* Windows: what local_ifaces_with_buffer returned
    adapters,      \* Windows: the adapter chain the OS wrote into the buffer
    dec_in,        \* SpecDecode: the native record handed to a decoder
    dec_by,        \* SpecDecode: which decoder ran
    dec_out        \* SpecDecode: what it produced

vars == <<target, pc, ret, origin, result, ifaddrs_list, item, stopped_at,
          free_calls, capacity, os_required, os_changes, queries, acquired,
          adapters, dec_in, dec_by, dec_out>>

unixVars == <<ifaddrs_list, item, stopped_at, free_calls>>
winVars  == <<capacity, os_required, os_changes, queries, acquired, adapters>>
decVars  == <<dec_in, dec_by, dec_out>>

(***************************************************************************)
(* Bounds of the model.                                                    *)
(***************************************************************************)
MaxNodes == 2       \* nodes in a getifaddrs list
MaxCells == 4       \* adapters plus unicast records in a chain (SpecMap)
MaxCallCells == 2   \* the same, for the chain a whole ifaces() call reads (Spec)
MaxOsChanges == 1   \* changes of the required size during one acquisition
MaxQueries == 3     \* GetAdaptersAddresses calls followed in one acquisition
AllocSlack == 1     \* bytes an allocation may exceed the requested capacity by

(***************************************************************************)
(* Option<T>, raw pointers and integer helpers.                            *)
(***************************************************************************)
None == [tag |-> "None"]
Some(x) == [tag |-> "Some", val |-> x]
NullPtr == [null |-> TRUE]
is_null(p) == p = NullPtr

RECURSIVE BitAnd(_, _)
BitAnd(x, y) ==
    IF x = 0 \/ y = 0 THEN 0
    ELSE (x % 2) * (y % 2) + 2 * BitAnd(x \div 2, y \div 2)
AsU16(x) == x % 65536

\* A u32 is held as its four bytes, least significant first (TLC's integers
\* are 32-bit signed): u[1] + 256 * u[2] + 65536 * u[3] + 16777216 * u[4].
\* On the little-endian hosts the crate targets these are the bytes of the
\* field in memory order.
U32And(u, m) == [i \in 1..4 |-> BitAnd(u[i], m[i])]
\* u >> n for n a multiple of 8
U32Shr(u, n) == [i \in 1..4 |-> IF i + n \div 8 <= 4 THEN u[i + n \div 8] ELSE 0]
\* u as u8
U32AsU8(u) == u[1]

(***************************************************************************)
(* Native socket address records (libc sockaddr_in / sockaddr_in6,         *)
(* winapi SOCKADDR_IN / SOCKADDR_IN6) and the decoded SocketAddr.          *)
(***************************************************************************)
SockV4(bytes, port) ==
    [sa_family |-> "AF_INET", s_addr |-> bytes, sin_port |-> port]
SockV6(bytes, port, flow, scope) ==
    [sa_family |-> "AF_INET6", s6_addr |-> bytes, sin6_port |-> port,
     sin6_flowinfo |-> flow, sin6_scope_id |-> scope]
SockOther(fam) == [sa_family |-> fam]

SocketAddrV4(ip, port) == [tag |-> "V4", ip |-> ip, port |-> port]
SocketAddrV6(segments, port, flow, scope) ==
    [tag |-> "V6", segments |-> segments, port |-> port,
     flowinfo |-> flow, scope_id |-> scope]

\* nix::sys::socket::AddressFamily::from_i32: Some for a family nix knows on
\* the target, None for any other tag.
NixFamilies(tgt) ==
    IF tgt = "linux" THEN {"AF_INET", "AF_INET6", "AF_PACKET", "AF_UNIX"}
    ELSE {"AF_INET", "AF_INET6", "AF_LINK", "AF_UNIX"}
AddressFamily_from_i32(tgt, fam) ==
    IF fam \in NixFamilies(tgt) THEN Some(fam) ELSE None

\* A decoder that reads s_addr most significant byte first.
unix_ipv4_BigEndian(addr) ==
    << U32AsU8(U32Shr(U32And(addr, <<0, 0, 0, 255>>), 24)),
       U32AsU8(U32Shr(U32And(addr, <<0, 0, 255, 0>>), 16)),
       U32AsU8(U32Shr(U32And(addr, <<0, 255, 0, 0>>), 8)),
       U32AsU8(U32Shr(U32And(addr, <<255, 0, 0, 0>>), 0)) >>

\* unix/mod.rs: Ipv4Addr::new of the four masked and shifted bytes of s_addr.
unix_ipv4(addr) ==
    << U32AsU8(U32Shr(U32And(addr, <<255, 0, 0, 0>>), 0)),
       U32AsU8(U32Shr(U32And(addr, <<0, 255, 0, 0>>), 8)),
       U32AsU8(U32Shr(U32And(addr, <<0, 0, 255, 0>>), 16)),
       U32AsU8(U32Shr(U32And(addr, <<0, 0, 0, 255>>), 24)) >>

\* unix/mod.rs: Ipv6Addr::new(addr[0] as u16, ..., addr[7] as u16); addr is
\* the [u8; 16] s6_addr, so every argument is one byte widened to u16.
unix_ipv6(addr) == [i \in 1..8 |-> AsU16(addr[i])]

nix_socketaddr_to_sockaddr(tgt, sa) ==
    IF is_null(sa) THEN None
    ELSE LET fam == AddressFamily_from_i32(tgt, sa.sa_family) IN
         IF fam = None THEN None
         ELSE IF fam.val = "AF_INET"
              THEN Some(SocketAddrV4(unix_ipv4(sa.s_addr), sa.sin_port))
         ELSE IF fam.val = "AF_INET6"
              THEN Some(SocketAddrV6(unix_ipv6(sa.s6_addr), sa.sin6_port, 0, 0))
         ELSE None

\* windows/mod.rs: Ipv4Addr::new((sin_addr >> k) as u8 ...), port 0.
v4_socket_from_adapter(sa) ==
    SocketAddrV4(<< U32AsU8(U32Shr(sa.s_addr, 0)), U32AsU8(U32Shr(sa.s_addr, 8)),
                    U32AsU8(U32Shr(sa.s_addr, 16)), U32AsU8(U32Shr(sa.s_addr, 24)) >>, 0)

\* std: impl From<[u8; 16]> for Ipv6Addr, each segment a big-endian byte pair.
Ipv6Addr_from_octets(b) == [i \in 1..8 |-> 256 * b[2 * i - 1] + b[2 * i]]

\* windows/mod.rs: SocketAddrV6::new(v6_addr, 0, sin6_flowinfo, sin6_scope_id).
v6_socket_from_adapter(sa) ==
    SocketAddrV6(Ipv6Addr_from_octets(sa.s6_addr), 0,
                 sa.sin6_flowinfo, sa.sin6_scope_id)

(***************************************************************************)
(* The shared data model (crate::Interface, Kind, NextHop) and io::Error.  *)
(***************************************************************************)
Interface(name, kind, addr, mask, hop) ==
    [name |-> name, kind |-> kind, addr |-> addr, mask |-> mask, hop |-> hop]
OptMap(o, variant) ==
    IF o = None THEN None ELSE Some([tag |-> variant, addr |-> o.val])
Ok(v) == [tag |-> "Ok", val |-> v]
Err(kind, msg) == [tag |-> "Err", kind |-> kind, msg |-> msg]
NoResult == [tag |-> "pending"]

(***************************************************************************)
(* Unix path: what getifaddrs can hand out.                                *)
(***************************************************************************)
IFF_BROADCAST == 2

\* ifa_flags values: UP|RUNNING, and UP|BROADCAST|RUNNING|MULTICAST.
FlagValues == {65, 4163}

\* ifa_name as bytes: "lo", and a byte string that is no UTF-8 text.
NameLo == <<108, 111>>
NameBad == <<108, 255>>
\* String::from_utf8 on the names above: ASCII bytes are UTF-8, 0xFF never is.
String_from_utf8(bytes) ==
    IF \A i \in 1..Len(bytes) : bytes[i] < 128 THEN Ok(bytes)
    ELSE [tag |-> "Err"]

Loopback4 == SockV4(<<127, 0, 0, 1>>, 0)
Bcast4 == SockV4(<<127, 255, 255, 255>>, 0)
Mask4 == SockV4(<<255, 0, 0, 0>>, 0)
Loopback6 == SockV6(<<0, 0, 0, 0, 0, 0, 0, 0, 0, 0, 0, 0, 0, 0, 0, 1>>, 0, 0, 0)
LinkLocal6 ==
    SockV6(<<254, 128, 0, 0, 0, 0, 0, 0, 2, 17, 34, 255, 254, 51, 68, 85>>, 0, 0, 2)
Mask6 ==
    SockV6(<<255, 255, 255, 255, 255, 255, 255, 255, 0, 0, 0, 0, 0, 0, 0, 0>>, 0, 0, 0)
RawSock(tgt) == SockOther(IF tgt = "linux" THEN "AF_PACKET" ELSE "AF_LINK")
UnixSock == SockOther("AF_UNIX")
UnrecognizedSock == SockOther("AF_UNRECOGNIZED")

Node(name, flags, addr, mask, ifu) ==
    [ifa_name |-> name, ifa_flags |-> flags, ifa_addr |-> addr,
     ifa_netmask |-> mask, ifa_ifu |-> ifu]

\* The netmask the OS reports beside a primary address.
MaskBeside(addr) ==
    IF is_null(addr) THEN NullPtr
    ELSE IF addr.sa_family = "AF_INET" THEN Mask4
    ELSE IF addr.sa_family = "AF_INET6" THEN Mask6
    ELSE NullPtr

\* The broadcast / destination union members the OS reports beside it.
UnionBeside(tgt, addr) ==
    IF is_null(addr) THEN {NullPtr}
    ELSE IF addr.sa_family \in {"AF_INET", "AF_INET6"}
         THEN {NullPtr, Bcast4, LinkLocal6, RawSock(tgt)}
    ELSE IF addr = RawSock(tgt) THEN {NullPtr, RawSock(tgt)}
    ELSE {NullPtr}

Nodes(tgt) ==
    { Node(NameLo, f, a, MaskBeside(a), u) :
        <<f, a, u>> \in
          { <<f, a, u>> \in FlagValues
                \X {NullPtr, Loopback4, Loopback6, RawSock(tgt), UnixSock,
                    UnrecognizedSock}
                \X {NullPtr, Bcast4, LinkLocal6, RawSock(tgt)} :
              u \in UnionBeside(tgt, a) } }
    \cup { Node(NameBad, 65, Loopback4, Mask4, Loopback4),
           Node(NameBad, 4163, UnixSock, NullPtr, NullPtr) }

Lists(tgt) == UNION { [1..n -> Nodes(tgt)] : n \in 0..MaxNodes }

(***************************************************************************)
(* Unix path: one loop iteration of ifaces(), unix/mod.rs.                 *)
(***************************************************************************)
\* The match on the family at lines 158-172.
KindOf(tgt, fam) ==
    IF fam = "AF_INET" THEN "Ipv4"
    ELSE IF fam = "AF_INET6" THEN "Ipv6"
    ELSE IF tgt = "linux" /\ fam = "AF_PACKET" THEN "Packet"
    ELSE IF tgt = "bsd" /\ fam = "AF_LINK" THEN "Link"
    ELSE "Unknown"

\* A walk that tests IFF_UP (0x1) where it should test IFF_BROADCAST.
BroadcastFlagSet_TestsUp(flags) == BitAnd(flags, 1) = 1

\* ifa_flags & IFF_BROADCAST == IFF_BROADCAST
BroadcastFlagSet(flags) == BitAnd(flags, IFF_BROADCAST) = IFF_BROADCAST

HopOf(tgt, node) ==
    IF BroadcastFlagSet(node.ifa_flags)
    THEN OptMap(nix_socketaddr_to_sockaddr(tgt, node.ifa_ifu), "Broadcast")
    ELSE OptMap(nix_socketaddr_to_sockaddr(tgt, node.ifa_ifu), "Destination")

\* The Interface lines 177-199 assemble from a node that passed the checks.
NodeInterface(tgt, node) ==
    Interface(String_from_utf8(node.ifa_name).val,
              KindOf(tgt, node.ifa_addr.sa_family),
              nix_socketaddr_to_sockaddr(tgt, node.ifa_addr),
              nix_socketaddr_to_sockaddr(tgt, node.ifa_netmask),
              HopOf(tgt, node))

Malformed(node) ==
    String_from_utf8(node.ifa_name).tag = "Err" \/ is_null(node.ifa_addr)

OnUnix == target \in {"linux", "bsd"}
AtNode == pc = "walk" /\ item <= Len(ifaddrs_list)

\* getifaddrs returns 0 and stores the list head in ifaddrs_ptr.
UnixGetifaddrsOk ==
    /\ OnUnix /\ pc = "start"
    /\ \E l \in Lists(target) : ifaddrs_list' = l
    /\ item' = 1
    /\ pc' = "walk"
    /\ UNCHANGED <<target, ret, origin, result, stopped_at, free_calls>>
    /\ UNCHANGED <<winVars, decVars>>

\* getifaddrs fails: Err(Other, "Oh, no ..."), nothing to walk or free.
UnixGetifaddrsFail ==
    /\ OnUnix /\ pc = "start"
    /\ result' = Err("Other", "Oh, no ...")
    /\ pc' = "done"
    /\ UNCHANGED <<target, ret, origin, unixVars, winVars, decVars>>

\* item.is_null(): the end of the list.
UnixLoopEnd ==
    /\ OnUnix /\ pc = "walk" /\ item > Len(ifaddrs_list)
    /\ pc' = "free"
    /\ UNCHANGED <<target, ret, origin, result, unixVars, winVars, decVars>>

\* A walk that skips a malformed node and goes on to the next one.
UnixBreakMalformed_Continues ==
    /\ OnUnix /\ AtNode
    /\ Malformed(ifaddrs_list[item])
    /\ stopped_at' = item
    /\ item' = item + 1
    /\ UNCHANGED <<target, pc, ret, origin, result, ifaddrs_list, free_calls>>
    /\ UNCHANGED <<winVars, decVars>>

\* name.is_err() || ifa_addr.is_null(): break.
UnixBreakMalformed ==
    /\ OnUnix /\ AtNode
    /\ Malformed(ifaddrs_list[item])
    /\ stopped_at' = item
    /\ pc' = "free"
    /\ UNCHANGED <<target, ret, origin, result, ifaddrs_list, item, free_calls>>
    /\ UNCHANGED <<winVars, decVars>>

\* A walk that returns from inside the loop on an unrecognized family,
\* passing freeifaddrs by.
UnixBreakFamily_Leaks ==
    /\ OnUnix /\ AtNode
    /\ ~Malformed(ifaddrs_list[item])
    /\ AddressFamily_from_i32(target, ifaddrs_list[item].ifa_addr.sa_family) = None
    /\ stopped_at' = item
    /\ pc' = "return"
    /\ UNCHANGED <<target, ret, origin, result, ifaddrs_list, item, free_calls>>
    /\ UNCHANGED <<winVars, decVars>>

\* AddressFamily::from_i32 gives None: break.
UnixBreakFamily ==
    /\ OnUnix /\ AtNode
    /\ ~Malformed(ifaddrs_list[item])
    /\ AddressFamily_from_i32(target, ifaddrs_list[item].ifa_addr.sa_family) = None
    /\ stopped_at' = item
    /\ pc' = "free"
    /\ UNCHANGED <<target, ret, origin, result, ifaddrs_list, item, free_calls>>
    /\ UNCHANGED <<winVars, decVars>>

\* A loop body without the kind != Kind::Unknown test.
UnixVisit_PushesUnknown ==
    /\ OnUnix /\ AtNode
    /\ ~Malformed(ifaddrs_list[item])
    /\ AddressFamily_from_i32(target, ifaddrs_list[item].ifa_addr.sa_family) # None
    /\ ret' = Append(ret, NodeInterface(target, ifaddrs_list[item]))
    /\ origin' = Append(origin, item)
    /\ item' = item + 1
    /\ UNCHANGED <<target, pc, result, ifaddrs_list, stopped_at, free_calls>>
    /\ UNCHANGED <<winVars, decVars>>

\* The rest of the loop body: push unless the kind is Unknown, then advance.
UnixVisit ==
    /\ OnUnix /\ AtNode
    /\ ~Malformed(ifaddrs_list[item])
    /\ AddressFamily_from_i32(target, ifaddrs_list[item].ifa_addr.sa_family) # None
    /\ LET iface == NodeInterface(target, ifaddrs_list[item]) IN
         IF iface.kind # "Unknown"
         THEN ret' = Append(ret, iface) /\ origin' = Append(origin, item)
         ELSE UNCHANGED <<ret, origin>>
    /\ item' = item + 1
    /\ UNCHANGED <<target, pc, result, ifaddrs_list, stopped_at, free_calls>>
    /\ UNCHANGED <<winVars, decVars>>

\* freeifaddrs(ifaddrs_ptr): the head of the list, cursor position 1.
UnixFree ==
    /\ OnUnix /\ pc = "free"
    /\ free_calls' = Append(free_calls, 1)
    /\ pc' = "return"
    /\ UNCHANGED <<target, ret, origin, result, ifaddrs_list, item, stopped_at>>
    /\ UNCHANGED <<winVars, decVars>>

\* Ok(ret)
UnixReturn ==
    /\ OnUnix /\ pc = "return"
    /\ result' = Ok(ret)
    /\ pc' = "done"
    /\ UNCHANGED <<target, ret, origin, unixVars, winVars, decVars>>

UnixNext ==
    \/ UnixGetifaddrsOk \/ UnixGetifaddrsFail \/ UnixLoopEnd
    \/ UnixBreakMalformed \/ UnixBreakFamily \/ UnixVisit
    \/ UnixFree \/ UnixReturn

(***************************************************************************)
(* Windows path: what GetAdaptersAddresses can write into the buffer.      *)
(***************************************************************************)
PREALLOC_ADAPTERS_LEN == 15 * 1024
\* buffer.capacity() as u32: every capacity of the model is below 2^32.
AsU32(x) == x

\* Sizes the OS may need for its adapter chain.
RequiredSizes ==
    {1024, PREALLOC_ADAPTERS_LEN, PREALLOC_ADAPTERS_LEN + 2, 2 * PREALLOC_ADAPTERS_LEN}

\* Failure statuses besides ERROR_BUFFER_OVERFLOW; the last stands for every
\* status the match has no arm for.
FailureStatuses ==
    {"ERROR_ADDRESS_NOT_ASSOCIATED", "ERROR_INVALID_PARAMETER",
     "ERROR_NOT_ENOUGH_MEMORY", "ERROR_NO_DATA", "ERROR_ACCESS_DENIED"}

Win4 == SockV4(<<192, 168, 1, 10>>, 0)
Win6 == SockV6(<<254, 128, 0, 0, 0, 0, 0, 0, 2, 17, 34, 255, 254, 51, 68, 85>>, 0, 0, 9)
Win6Global ==
    SockV6(<<32, 1, 13, 184, 0, 0, 0, 0, 0, 0, 0, 0, 0, 0, 0, 1>>, 0, 0, 0)
WinOtherFamily == SockOther("AF_NETBIOS")

Unicast(length, dad, address) ==
    [length |-> length, dad_state |-> dad, address |-> address]

UnicastRecords ==
    { Unicast(64, d, a) :
        d \in {"IpDadStatePreferred", "IpDadStateDeprecated"},
        a \in {Win4, Win6, WinOtherFamily} }
    \cup { Unicast(64, "IpDadStatePreferred", Win6Global),
           Unicast(64, "IpDadStateTentative", Win6),
           Unicast(0, "IpDadStatePreferred", Win4),
           Unicast(0, "IpDadStateDeprecated", Win6) }

IfIndexes == {5, 7}

Adapter(idx, unicast) == [ipv6_if_index |-> idx, unicast |-> unicast]

RECURSIVE Chains(_)
\* Adapter chains of at most `cells` adapters and unicast records together.
Chains(cells) ==
    {<<>>} \cup
    UNION { { <<Adapter(i, u)>> \o rest :
                i \in IfIndexes,
                u \in [1..t -> UnicastRecords],
                rest \in Chains(cells - 1 - t) } :
            t \in 0..(cells - 1) }

(***************************************************************************)
(* Windows path: map_adapter_addresses, windows/mod.rs.                    *)
(***************************************************************************)
\* A match whose first arm names IpDadStateDuplicate, so that deprecated
\* records fall through to the decoding arm.
unicast_match_WrongState(adapter, rec) ==
    IF rec.dad_state = "IpDadStateDuplicate" THEN <<>>
    ELSE IF rec.length = 0 THEN <<>>
    ELSE IF rec.address.sa_family = "AF_INET"
         THEN << Interface("", "Ipv4",
                           Some(v4_socket_from_adapter(rec.address)), None, None) >>
    ELSE IF rec.address.sa_family = "AF_INET6"
         THEN LET v6_sock == v6_socket_from_adapter(rec.address) IN
              << Interface("", "Ipv6",
                           Some([v6_sock EXCEPT !.scope_id = adapter.ipv6_if_index]),
                           None, None) >>
    ELSE <<>>

\* A match without the set_scope_id call: the record's own scope id stays.
unicast_match_KeepsScope(adapter, rec) ==
    IF rec.dad_state = "IpDadStateDeprecated" THEN <<>>
    ELSE IF rec.length = 0 THEN <<>>
    ELSE IF rec.address.sa_family = "AF_INET"
         THEN << Interface("", "Ipv4",
                           Some(v4_socket_from_adapter(rec.address)), None, None) >>
    ELSE IF rec.address.sa_family = "AF_INET6"
         THEN << Interface("", "Ipv6",
                           Some(v6_socket_from_adapter(rec.address)), None, None) >>
    ELSE <<>>

\* The match on one unicast record (lines 347-382): the Interface it pushes,
\* as a sequence of zero or one element.
unicast_match(adapter, rec) ==
    IF rec.dad_state = "IpDadStateDeprecated" THEN <<>>
    ELSE IF rec.length = 0 THEN <<>>
    ELSE IF rec.address.sa_family = "AF_INET"
         THEN << Interface("", "Ipv4",
                           Some(v4_socket_from_adapter(rec.address)), None, None) >>
    ELSE IF rec.address.sa_family = "AF_INET6"
         THEN LET v6_sock == v6_socket_from_adapter(rec.address) IN
              << Interface("", "Ipv6",
                           Some([v6_sock EXCEPT !.scope_id = adapter.ipv6_if_index]),
                           None, None) >>
    ELSE <<>>

RECURSIVE WalkUnicast_StopsAtSkip(_, _, _, _)
\* An inner loop that breaks at the first record that pushes nothing.
WalkUnicast_StopsAtSkip(adapter, a, u, acc) ==
    IF u > Len(adapter.unicast) THEN acc
    ELSE LET pushed == unicast_match(adapter, adapter.unicast[u]) IN
         IF pushed = <<>> THEN acc
         ELSE WalkUnicast_StopsAtSkip(adapter, a, u + 1,
                  acc \o [k \in 1..Len(pushed) |->
                             [iface |-> pushed[k], a |-> a, u |-> u]])

RECURSIVE WalkUnicast(_, _, _, _)
\* The inner loop: unicast records u.. of adapter number a, appended to acc.
WalkUnicast(adapter, a, u, acc) ==
    IF u > Len(adapter.unicast) THEN acc
    ELSE LET pushed == unicast_match(adapter, adapter.unicast[u]) IN
         WalkUnicast(adapter, a, u + 1,
             acc \o [k \in 1..Len(pushed) |-> [iface |-> pushed[k], a |-> a, u |-> u]])

RECURSIVE WalkAdapters(_, _, _)
\* The outer loop: adapters a.. of the chain.
WalkAdapters(chain, a, acc) ==
    IF a > Len(chain) THEN acc
    ELSE WalkAdapters(chain, a + 1, WalkUnicast(chain[a], a, 1, acc))

map_adapter_addresses(chain) ==
    LET w == WalkAdapters(chain, 1, <<>>) IN [k \in 1..Len(w) |-> w[k].iface]
\* ghost: the <<adapter, record>> position each pushed Interface came from
map_adapter_origins(chain) ==
    LET w == WalkAdapters(chain, 1, <<>>) IN [k \in 1..Len(w) |-> <<w[k].a, w[k].u>>]

(***************************************************************************)
(* Windows path: local_ifaces_with_buffer and ifaces, windows/mod.rs.      *)
(***************************************************************************)
\* Vec::reserve_exact: nothing if capacity - len already holds `additional`
\* more elements, otherwise a capacity of at least len + additional.
reserve_exact(cap, len, additional) ==
    IF cap - len >= additional THEN {cap}
    ELSE (len + additional)..(len + additional + AllocSlack)

\* A growth that reserves only the difference to the current capacity.
GrownCapacity_Difference(cap, length) == reserve_exact(cap, 0, length - cap)

\* buffer.reserve_exact(length as usize) on the never-filled buffer (len 0).
GrownCapacity(cap, length) == reserve_exact(cap, 0, length)

\* The Err arms of the match on ret_code.
local_error(status) ==
    IF status = "ERROR_ADDRESS_NOT_ASSOCIATED"
    THEN Err("AddrNotAvailable",
             "An address has not yet been associated with the network endpoint.")
    ELSE IF status = "ERROR_INVALID_PARAMETER"
    THEN Err("InvalidInput", "One of the parameters is invalid.")
    ELSE IF status = "ERROR_NOT_ENOUGH_MEMORY"
    THEN Err("Other",
             "Insufficient memory resources are available to complete the operation.")
    ELSE IF status = "ERROR_NO_DATA"
    THEN Err("AddrNotAvailable",
             "No addresses were found for the requested parameters.")
    ELSE Err("Other", "Some Other Error Occured.")

\* ifaces(): what the caller gets for an Err of local_ifaces_with_buffer.
ifaces_error(e) == Err("Other", "Oh, no ...")

OnWindows == target = "windows"
\* ghost: one GetAdaptersAddresses call; `after` is buffer.capacity() when the
\* match arm of that call is through.
Query(status, after) ==
    [hint |-> AsU32(capacity), required |-> os_required, status |-> status,
     length |-> IF status = "ERROR_BUFFER_OVERFLOW" THEN os_required
                ELSE AsU32(capacity),
     after |-> after]
CanQuery == OnWindows /\ pc = "query" /\ Len(queries) < MaxQueries

\* Vec::with_capacity(PREALLOC_ADAPTERS_LEN)
WinAlloc ==
    /\ OnWindows /\ pc = "start"
    /\ capacity' \in PREALLOC_ADAPTERS_LEN..(PREALLOC_ADAPTERS_LEN + AllocSlack)
    /\ pc' = "query"
    /\ UNCHANGED <<target, ret, origin, result, os_required, os_changes,
                   queries, acquired, adapters, unixVars, decVars>>

\* The OS gains or loses adapters between two calls.
OsChange ==
    /\ OnWindows /\ pc = "query" /\ queries # <<>>
    /\ os_changes < MaxOsChanges
    /\ os_required' \in RequiredSizes \ {os_required}
    /\ os_changes' = os_changes + 1
    /\ UNCHANGED <<target, pc, ret, origin, result, capacity, queries, acquired,
                   adapters, unixVars, decVars>>

\* ERROR_SUCCESS: the buffer was large enough and now holds the chain.
WinQuerySuccess ==
    /\ CanQuery /\ AsU32(capacity) >= os_required
    /\ queries' = Append(queries, Query("ERROR_SUCCESS", capacity))
    /\ \E chain \in Chains(MaxCallCells) : adapters' = chain
    /\ acquired' = Ok(<<>>)
    /\ pc' = "map"
    /\ UNCHANGED <<target, ret, origin, result, capacity, os_required, os_changes,
                   unixVars, decVars>>

\* ERROR_BUFFER_OVERFLOW: length holds the required size; grow and call again.
WinQueryOverflow ==
    /\ CanQuery /\ AsU32(capacity) < os_required
    /\ capacity' \in GrownCapacity(capacity, os_required)
    /\ queries' = Append(queries, Query("ERROR_BUFFER_OVERFLOW", capacity'))
    /\ UNCHANGED <<target, pc, ret, origin, result, os_required, os_changes,
                   acquired, adapters, unixVars, decVars>>

\* Any other status: the Err of the matching arm.
WinQueryError ==
    /\ CanQuery
    /\ \E status \in FailureStatuses :
         /\ queries' = Append(queries, Query(status, capacity))
         /\ acquired' = local_error(status)
    /\ pc' = "fail"
    /\ UNCHANGED <<target, ret, origin, result, capacity, os_required, os_changes,
                   adapters, unixVars, decVars>>

\* Ok(_) => Ok(map_adapter_addresses(buffer))
WinMap ==
    /\ OnWindows /\ pc = "map"
    /\ ret' = map_adapter_addresses(adapters)
    /\ origin' = map_adapter_origins(adapters)
    /\ result' = Ok(ret')
    /\ pc' = "done"
    /\ UNCHANGED <<target, winVars, unixVars, decVars>>

\* Err(_) => Err(io::Error::new(io::ErrorKind::Other, "Oh, no ..."))
WinFail ==
    /\ OnWindows /\ pc = "fail"
    /\ result' = ifaces_error(acquired)
    /\ pc' = "done"
    /\ UNCHANGED <<target, ret, origin, winVars, unixVars, decVars>>

WinNext ==
    \/ WinAlloc \/ OsChange \/ WinQuerySuccess \/ WinQueryOverflow
    \/ WinQueryError \/ WinMap \/ WinFail

(***************************************************************************)
(* One call of ifaces().                                                   *)
(***************************************************************************)
Init ==
    /\ target \in {"linux", "bsd", "windows"}
    /\ pc = "start"
    /\ ret = <<>> /\ origin = <<>> /\ result = NoResult
    /\ ifaddrs_list = <<>> /\ item = 0 /\ stopped_at = 0 /\ free_calls = <<>>
    /\ capacity = 0
    /\ os_required \in (IF target = "windows" THEN RequiredSizes ELSE {0})
    /\ os_changes = 0 /\ queries = <<>> /\ acquired = NoResult /\ adapters = <<>>
    /\ dec_in = NullPtr /\ dec_by = "none" /\ dec_out = None

Next == UnixNext \/ WinNext

Spec == Init /\ [][Next]_vars

(***************************************************************************)
(* map_adapter_addresses alone, on every chain of at most MaxCells cells:  *)
(* the buffer has just been filled by a first, successful query.           *)
(***************************************************************************)
InitMap ==
    /\ target = "windows"
    /\ pc = "map"
    /\ ret = <<>> /\ origin = <<>> /\ result = NoResult
    /\ ifaddrs_list = <<>> /\ item = 0 /\ stopped_at = 0 /\ free_calls = <<>>
    /\ capacity = PREALLOC_ADAPTERS_LEN
    /\ os_required = 1024
    /\ os_changes = 0
    /\ queries = << [hint |-> PREALLOC_ADAPTERS_LEN, required |-> 1024,
                     status |-> "ERROR_SUCCESS", length |-> PREALLOC_ADAPTERS_LEN,
                     after |-> PREALLOC_ADAPTERS_LEN] >>
    /\ acquired = Ok(<<>>)
    /\ adapters \in Chains(MaxCells)
    /\ dec_in = NullPtr /\ dec_by = "none" /\ dec_out = None

SpecMap == InitMap /\ [][WinMap]_vars

(***************************************************************************)
(* The decoders alone, on bounded sets of native records.                  *)
(***************************************************************************)
ByteValues == {0, 1, 127, 128, 255}
PortValues == {0, 20480}

Ipv4Records ==
    { SockV4(<<a, b, c, d>>, p) :
        a \in ByteValues, b \in ByteValues, c \in ByteValues, d \in ByteValues,
        p \in PortValues }

\* 16-byte addresses: a base address with one byte overwritten.
Ipv6Bases ==
    { [i \in 1..16 |-> 0],
      [i \in 1..16 |-> 16 * i - 1],
      <<32, 1, 13, 184, 133, 163, 0, 0, 0, 0, 138, 46, 3, 112, 115, 52>> }
Ipv6Octets ==
    { [base EXCEPT ![i] = v] : base \in Ipv6Bases, i \in 1..16, v \in ByteValues }
Ipv6Records ==
    { SockV6(b, p, 0, s) : b \in Ipv6Octets, p \in PortValues, s \in {0, 3} }

DecoderInputs ==
    Ipv4Records \cup Ipv6Records
        \cup {NullPtr, UnixSock, UnrecognizedSock, RawSock("linux")}

InitDecode ==
    /\ target = "linux"
    /\ pc = "decode"
    /\ ret = <<>> /\ origin = <<>> /\ result = NoResult
    /\ ifaddrs_list = <<>> /\ item = 0 /\ stopped_at = 0 /\ free_calls = <<>>
    /\ capacity = 0 /\ os_required = 0 /\ os_changes = 0
    /\ queries = <<>> /\ acquired = NoResult /\ adapters = <<>>
    /\ dec_in \in DecoderInputs
    /\ dec_by = "none" /\ dec_out = None

walkVars == <<target, pc, ret, origin, result, unixVars, winVars>>

\* unix/mod.rs: nix_socketaddr_to_sockaddr on any pointer
DecodeUnix ==
    /\ dec_by = "none"
    /\ dec_out' = nix_socketaddr_to_sockaddr(target, dec_in)
    /\ dec_by' = "nix_socketaddr_to_sockaddr"
    /\ UNCHANGED <<dec_in, walkVars>>

\* windows/mod.rs: v4_socket_from_adapter, called in the AF_INET arm only
DecodeWinV4 ==
    /\ dec_by = "none"
    /\ ~is_null(dec_in) /\ dec_in.sa_family = "AF_INET"
    /\ dec_out' = Some(v4_socket_from_adapter(dec_in))
    /\ dec_by' = "v4_socket_from_adapter"
    /\ UNCHANGED <<dec_in, walkVars>>

\* windows/mod.rs: v6_socket_from_adapter, called in the AF_INET6 arm only
DecodeWinV6 ==
    /\ dec_by = "none"
    /\ ~is_null(dec_in) /\ dec_in.sa_family = "AF_INET6"
    /\ dec_out' = Some(v6_socket_from_adapter(dec_in))
    /\ dec_by' = "v6_socket_from_adapter"
    /\ UNCHANGED <<dec_in, walkVars>>

NextDecode == DecodeUnix \/ DecodeWinV4 \/ DecodeWinV6

SpecDecode == InitDecode /\ [][NextDecode]_vars

(***************************************************************************)
(* Properties.                                                             *)
(***************************************************************************)
Returned == IF result.tag = "Ok" THEN result.val ELSE <<>>
Walked == pc \in {"free", "return", "done"}

\* C1: on the Unix and on the Windows path, no Interface that ifaces()
\* collects or returns has kind Unknown.
C1_NoUnknownKind ==
    /\ \A k \in 1..Len(ret) : ret[k].kind # "Unknown"
    /\ \A k \in 1..Len(Returned) :
         Returned[k].kind \in {"Ipv4", "Ipv6", "Packet", "Link"}

\* C1 witness: a Unix call returned entries after visiting a node whose
\* family maps to Kind::Unknown.
C1_Witness ==
    /\ OnUnix /\ pc = "done" /\ result.tag = "Ok" /\ Len(result.val) = 1
    /\ Len(ifaddrs_list) = 2 /\ stopped_at = 0
    /\ KindOf(target, ifaddrs_list[1].ifa_addr.sa_family) = "Unknown"

\* C2: once getifaddrs has handed out the list, freeifaddrs has not been
\* called while the walk runs, and has been called exactly once, on the
\* list head, from the end of the walk's release step until ifaces() has
\* returned, however the walk ended.
C2_FreedExactlyOnce ==
    (OnUnix /\ item >= 1) =>
        /\ pc \in {"walk", "free", "return", "done"}
        /\ pc \in {"walk", "free"} => free_calls = <<>>
        /\ pc \in {"return", "done"} => free_calls = <<1>>
        /\ pc = "done" => result.tag = "Ok"

\* C2 witness: a walk that broke on an unrecognized family tag has returned
\* after one freeifaddrs call.
C2_Witness ==
    /\ OnUnix /\ pc = "done" /\ free_calls = <<1>>
    /\ stopped_at = 2
    /\ ~Malformed(ifaddrs_list[2])
    /\ ifaddrs_list[2].ifa_addr = UnrecognizedSock

BytePairs(b) == [i \in 1..8 |-> 256 * b[2 * i - 1] + b[2 * i]]

\* C3: for every 16-byte IPv6 address in a native record, the Unix and the
\* Windows decoder produce the 8 groups that are the 8 consecutive byte
\* pairs of those bytes, in order.
C3_Ipv6BytePairs ==
    (dec_by \in {"nix_socketaddr_to_sockaddr", "v6_socket_from_adapter"}
        /\ ~is_null(dec_in) /\ dec_in.sa_family = "AF_INET6") =>
        /\ dec_out.tag = "Some"
        /\ dec_out.val.tag = "V6"
        /\ dec_out.val.segments = BytePairs(dec_in.s6_addr)

\* C4: for every IPv4 record whose s_addr holds the bytes [a, b, c, d],
\* least significant first, the Unix and the Windows decoder produce the
\* address a.b.c.d.
C4_Ipv4AscendingBytes ==
    (dec_by \in {"nix_socketaddr_to_sockaddr", "v4_socket_from_adapter"}
        /\ ~is_null(dec_in) /\ dec_in.sa_family = "AF_INET") =>
        /\ dec_out.tag = "Some"
        /\ dec_out.val.tag = "V4"
        /\ \A i \in 1..4 : dec_out.val.ip[i] = dec_in.s_addr[i]

\* C4 witness: the Unix decoder has turned the bytes 127, 0, 0, 1 into
\* 127.0.0.1.
C4_Witness ==
    /\ dec_by = "nix_socketaddr_to_sockaddr"
    /\ dec_in = SockV4(<<127, 0, 0, 1>>, 0)
    /\ dec_out = Some(SocketAddrV4(<<127, 0, 0, 1>>, 0))

\* C5: on the Windows path the error the caller of ifaces() receives for
\* one failure class differs from the error it would receive for any other
\* failure class.
C5_ErrorsDistinguishable ==
    (OnWindows /\ pc = "done" /\ result.tag = "Err") =>
        \A other \in FailureStatuses \ {queries[Len(queries)].status} :
            ifaces_error(local_error(other)) # result

\* C6: when the first query reports ERROR_BUFFER_OVERFLOW with required
\* size R, the buffer is grown to a capacity of at least R, the second
\* query gets that capacity as its size hint, and if the OS still needs R
\* and reports no failure, the second query succeeds, no third one is
\* made and ifaces() returns Ok.
C6_GrowAndRetry ==
    (OnWindows /\ Len(queries) >= 1
        /\ queries[1].status = "ERROR_BUFFER_OVERFLOW") =>
        LET R == queries[1].length IN
        /\ R = queries[1].required
        /\ queries[1].after >= R
        /\ Len(queries) = 1 => capacity = queries[1].after
        /\ Len(queries) >= 2 =>
             /\ queries[2].hint = queries[1].after
             /\ (queries[2].required = R
                   /\ queries[2].status \notin FailureStatuses) =>
                    /\ queries[2].status = "ERROR_SUCCESS"
                    /\ Len(queries) = 2
                    /\ acquired.tag = "Ok"
                    /\ pc \in {"map", "done"}
                    /\ pc = "done" => result.tag = "Ok"

\* C6 witness: ifaces() returned Ok after exactly two queries, the first of
\* which reported ERROR_BUFFER_OVERFLOW.
C6_Witness ==
    /\ OnWindows /\ pc = "done" /\ result.tag = "Ok"
    /\ Len(queries) = 2
    /\ queries[1].status = "ERROR_BUFFER_OVERFLOW"
    /\ queries[2].status = "ERROR_SUCCESS"
    /\ queries[2].required = queries[1].length

AllUnicast ==
    { <<a, u>> \in (1..Len(adapters)) \X (1..MaxCells + 1) :
        u <= Len(adapters[a].unicast) }
RecordAt(pos) == adapters[pos[1]].unicast[pos[2]]
Deprecated(pos) == RecordAt(pos).dad_state = "IpDadStateDeprecated"

\* C7: no unicast record whose dad_state is Deprecated is the origin of an
\* Interface in the output of map_adapter_addresses, whatever its family,
\* length or address; a chain of deprecated records only yields nothing.
C7_NoDeprecated ==
    (OnWindows /\ pc = "done" /\ result.tag = "Ok") =>
        /\ result.val = ret
        /\ Len(origin) = Len(ret)
        /\ \A k \in 1..Len(origin) : origin[k] \in AllUnicast /\ ~Deprecated(origin[k])
        /\ Len(ret) <= Cardinality({pos \in AllUnicast : ~Deprecated(pos)})
        /\ (\A pos \in AllUnicast : Deprecated(pos)) => ret = <<>>

\* C7 witness: a chain with deprecated IPv4 and IPv6 records and one
\* preferred record has been mapped to a single Interface.
C7_Witness ==
    /\ OnWindows /\ pc = "done" /\ Len(ret) = 1
    /\ \E p, q \in AllUnicast :
         /\ Deprecated(p) /\ RecordAt(p).address = Win4 /\ RecordAt(p).length # 0
         /\ Deprecated(q) /\ RecordAt(q).address = Win6

\* C8: every Interface of kind Ipv6 in the output carries as scope id the
\* ipv6_if_index of the adapter owning the unicast record it came from,
\* whatever the address and whatever scope id the record holds.
C8_ScopeIdFromAdapter ==
    (OnWindows /\ pc = "done" /\ result.tag = "Ok") =>
        \A k \in 1..Len(ret) :
            ret[k].kind = "Ipv6" =>
                /\ RecordAt(origin[k]).address.sa_family = "AF_INET6"
                /\ ret[k].addr.tag = "Some"
                /\ ret[k].addr.val.scope_id = adapters[origin[k][1]].ipv6_if_index

\* C8 witness: two adapters with different ipv6_if_index each gave an Ipv6
\* Interface, one from a link-local record holding another scope id and
\* one from a global address.
C8_Witness ==
    /\ OnWindows /\ pc = "done" /\ Len(ret) = 2 /\ Len(adapters) = 2
    /\ adapters[1].ipv6_if_index = 5 /\ adapters[2].ipv6_if_index = 7
    /\ RecordAt(origin[1]).address = Win6 /\ RecordAt(origin[2]).address = Win6Global
    /\ ret[1].addr.val.scope_id = 5 /\ ret[2].addr.val.scope_id = 7

\* C9: for every node that gave an Interface, hop is absent when the union
\* pointer is null or does not decode; otherwise it holds the decoded union
\* address, as Broadcast when IFF_BROADCAST is set in ifa_flags and as
\* Destination when it is not.
C9_HopFollowsBroadcastFlag ==
    OnUnix =>
        \A k \in 1..Len(ret) :
            LET node == ifaddrs_list[origin[k]]
                decoded == nix_socketaddr_to_sockaddr(target, node.ifa_ifu)
                flagged == (node.ifa_flags \div IFF_BROADCAST) % 2 = 1
            IN /\ is_null(node.ifa_ifu) => ret[k].hop = None
               /\ decoded = None => ret[k].hop = None
               /\ decoded # None =>
                    /\ ret[k].hop.tag = "Some"
                    /\ ret[k].hop.val.addr = decoded.val
                    /\ flagged => ret[k].hop.val.tag = "Broadcast"
                    /\ ~flagged => ret[k].hop.val.tag = "Destination"

\* C9 witness: a returned list holds a Broadcast hop of 127.255.255.255,
\* a Destination hop and an absent hop.
C9_Witness ==
    /\ OnUnix /\ pc = "done" /\ result.tag = "Ok" /\ Len(ret) = 2
    /\ \E j, k \in 1..2 :
         /\ ret[j].hop =
              Some([tag |-> "Broadcast",
                    addr |-> SocketAddrV4(<<127, 255, 255, 255>>, 0)])
         /\ ret[k].hop.tag = "Some" /\ ret[k].hop.val.tag = "Destination"

RECURSIVE EntriesBefore(_, _, _)
\* The entries of the nodes i .. k-1 of the list, in list order.
EntriesBefore(list, i, k) ==
    IF i >= k THEN <<>>
    ELSE (IF KindOf(target, list[i].ifa_addr.sa_family) = "Unknown" THEN <<>>
          ELSE << NodeInterface(target, list[i]) >>)
         \o EntriesBefore(list, i + 1, k)

\* C10: when the walk reaches a node with an undecodable name or a null
\* primary address, it stops there: the list built is exactly the entries
\* of the nodes before that node, in list order, nothing at or after it
\* contributes, and ifaces() returns that list as Ok.
C10_MalformedStopsWalk ==
    (OnUnix /\ stopped_at > 0 /\ Malformed(ifaddrs_list[stopped_at])) =>
        /\ Walked
        /\ item = stopped_at
        /\ \A k \in 1..Len(origin) : origin[k] < stopped_at
        /\ ret = EntriesBefore(ifaddrs_list, 1, stopped_at)
        /\ pc = "done" => result = Ok(ret)

\* C10 witness: a list whose second node has an undecodable name and whose
\* first node is good was returned as Ok with the first node's entry only.
C10_Witness ==
    /\ OnUnix /\ pc = "done" /\ stopped_at = 2
    /\ String_from_utf8(ifaddrs_list[2].ifa_name).tag = "Err"
    /\ result.tag = "Ok" /\ Len(result.val) = 1

ZeroLength(pos) == RecordAt(pos).length = 0
Decodable(pos) == RecordAt(pos).address.sa_family \in {"AF_INET", "AF_INET6"}
Skipped(pos) == ZeroLength(pos) \/ ~Decodable(pos)
Eligible(pos) == ~Deprecated(pos) /\ ~Skipped(pos)
\* pos comes before qos in the chain: an earlier adapter, or the same
\* adapter and an earlier record
ChainBefore(pos, qos) ==
    pos[1] < qos[1] \/ (pos[1] = qos[1] /\ pos[2] < qos[2])

\* C11: a unicast record of declared length zero, or of a family other
\* than IPv4 and IPv6, gives no Interface and does not end the walk: every
\* non-deprecated, non-zero-length IPv4 or IPv6 record of the chain, those
\* after a skipped record in the same or a later adapter included, gives
\* exactly one Interface, of its family's kind, and the Interfaces are in
\* chain order.
C11_SkipDoesNotStopWalk ==
    (OnWindows /\ pc = "done" /\ result.tag = "Ok") =>
        /\ Len(origin) = Len(ret)
        /\ \A k \in 1..Len(origin) : origin[k] \in AllUnicast /\ ~Skipped(origin[k])
        /\ \A pos \in AllUnicast :
             Eligible(pos) => Cardinality({k \in 1..Len(origin) : origin[k] = pos}) = 1
        /\ \A j, k \in 1..Len(origin) : j < k => ChainBefore(origin[j], origin[k])
        /\ \A k \in 1..Len(ret) :
             ret[k].kind =
               (IF RecordAt(origin[k]).address.sa_family = "AF_INET"
                THEN "Ipv4" ELSE "Ipv6")
        /\ result.val = ret

\* C11 witness: the first adapter holds one skipped, non-deprecated record
\* (zero length or another family), the second adapter a non-deprecated
\* IPv4 record, and the output is the one Interface of that last record.
C11_Witness ==
    /\ OnWindows /\ pc = "done" /\ Len(adapters) = 2
    /\ Len(adapters[1].unicast) = 1 /\ Len(adapters[2].unicast) = 1
    /\ ~Deprecated(<<1, 1>>) /\ Skipped(<<1, 1>>)
    /\ Eligible(<<2, 1>>)
    /\ origin = << <<2, 1>> >>
    /\ Len(ret) = 1 /\ ret[1].kind = "Ipv4"

====
